---- MODULE Spec2Model ----
(***************************************************************************)
(* A model of src/c/vdbe_rust.c: the C helper layer that lets a caller     *)
(* assemble, size, step and inspect one SQLite VDBE program.               *)
(*                                                                         *)
(* The helper functions of vdbe_rust.c are modelled from their code.  The  *)
(* engine routines they call (sqlite3VdbeCreate, sqlite3VdbeMakeReady,     *)
(* sqlite3VdbeMakeLabel, sqlite3VdbeResolveLabel, sqlite3VdbeAddOp*,       *)
(* sqlite3VdbeMem*, sqlite3_step, sqlite3_finalize) are not part of        *)
(* vdbe_rust.c; they are modelled from the specification (spec.md).        *)
(***************************************************************************)
EXTENDS Integers, Sequences, FiniteSets, TLC

VARIABLES
  aOp,         \* p->aOp: the program; address a is aOp[a+1]
  nOp,         \* p->nOp: number of instructions
  eVdbeState,  \* p->eVdbeState: 0=INIT 1=READY 2=RUN 3=HALT
  nMem,        \* p->nMem: number of registers
  nCursor,     \* p->nCursor: number of cursor slots
  aMem,        \* p->aMem: register cells, index 0 reserved
  apCsr,       \* p->apCsr: cursor slots 0..nCursor-1
  pc,          \* p->pc: instruction pointer
  rc,          \* p->rc: status recorded on the VM
  pParse,      \* p->pParse: the VM's reference to its assembly context
  resultRow,   \* p->pResultRow: first register of the current row, 0 if none
  alive,       \* "live", "crashed", "hung" or "finalized"
  last,        \* the last API call and what it returned
  nRow,        \* rows produced so far (observation)
  lastRun,     \* addresses executed by the last step call (observation)
  issued,      \* identifiers returned by make_label, in call order (observation)
  resolvedAt,  \* label id -> instruction count at its resolve_label call during assembly (observation)
  refs,        \* <<address, label id>>: jump operands given as labels (observation)
  declared,    \* <<N, M>> of the make_ready call, <<>> before it (observation)
  statePath,   \* life-cycle states the last make_ready or step went through (observation)
  stepRet,     \* what the most recent step returned, -1 before the first (observation)
  firstAt,     \* label id -> instruction count at its first resolve_label call during assembly (observation)
  ctx,         \* the assembly context the last helper call ran its engine routine with (observation)
  vmB,         \* a second VM, created on another connection
  heap         \* the allocator: the register array finalize released, and whether vmB's array reuses it

vars == <<aOp, nOp, eVdbeState, nMem, nCursor, aMem, apCsr, pc, rc, pParse,
          resultRow, alive, last, nRow, lastRun, issued, resolvedAt, refs,
          declared, statePath, stepRet, firstAt, ctx, vmB, heap>>

vmVars == <<aOp, nOp, eVdbeState, nMem, nCursor, aMem, apCsr, pc, rc, pParse,
            resultRow>>

obsVars == <<nRow, lastRun, issued, resolvedAt, refs, declared, statePath, stepRet,
             firstAt, ctx>>

isoVars == <<vmB, heap>>

---------------------------------------------------------------------------
(* Bounds of the model *)

MaxOps == 4      \* longest program, the implicit init instruction included
MaxReg == 2      \* largest register count given to make_ready
MaxCur == 1      \* largest cursor count given to make_ready
MaxLabels == 2   \* most make_label calls
MaxRows == 2     \* most rows a run may produce before stepping stops
MaxRegOps == 2   \* longest program of the register-access scenarios

---------------------------------------------------------------------------
(* Program constants *)

VDBE_INIT_STATE == 0
VDBE_READY_STATE == 1
VDBE_RUN_STATE == 2
VDBE_HALT_STATE == 3

SQLITE_OK == 0
SQLITE_ERROR == 1
SQLITE_BUSY == 5
SQLITE_ROW == 100
SQLITE_DONE == 101

NULL == 0

MEM_Null == "Null"
MEM_Int == "Int"
MEM_Real == "Real"

OP_Init == "Init"
OP_Integer == "Integer"
OP_ResultRow == "ResultRow"
OP_Halt == "Halt"
OP_Goto == "Goto"
OP_OpenRead == "OpenRead"

(* Values the caller passes.  A double d is represented by the integer 2*d, *)
(* so 3 stands for 1.5 and -5 for -2.5.                                     *)
IntVals == {-7, 42}
DblVals == {-5, 3}
RegArgs == (0 - 1)..(MaxReg + 1)

---------------------------------------------------------------------------
(* Value cells *)

NullCell == [flags |-> MEM_Null, u |-> 0]

sqlite3VdbeMemSetInt64(value) == [flags |-> MEM_Int, u |-> value]

sqlite3VdbeMemSetDouble(value) == [flags |-> MEM_Real, u |-> value]

sqlite3VdbeMemSetNull == NullCell

(* Truncation of a double (in halves) toward zero *)
Truncate(h) == IF h >= 0 THEN h \div 2 ELSE 0 - ((0 - h) \div 2)

sqlite3VdbeIntValue(cell) ==
  CASE cell.flags = MEM_Int -> cell.u
    [] cell.flags = MEM_Real -> Truncate(cell.u)
    [] OTHER -> 0

sqlite3VdbeRealValue(cell) ==
  CASE cell.flags = MEM_Real -> cell.u
    [] cell.flags = MEM_Int -> 2 * cell.u
    [] OTHER -> 0

---------------------------------------------------------------------------
(* The record of an API call *)

Call(op, reg, val, ret) == [op |-> op, reg |-> reg, val |-> val, ret |-> ret]

---------------------------------------------------------------------------
(* sqlite3_vdbe_create(db), db # 0: the state after construction.           *)
(* sqlite3VdbeCreate puts OP_Init(0,1) at address 0; the helper then        *)
(* detaches the VM from the temporary Parse.                                *)

(* The init instruction jumping to its own address *)
sqlite3VdbeCreate_selfjump == <<[opcode |-> OP_Init, p1 |-> 0, p2 |-> 0]>>

sqlite3VdbeCreate == <<[opcode |-> OP_Init, p1 |-> 0, p2 |-> 1]>>

(* The assembly context (Parse).  Each helper builds a temporary one,       *)
(* memset to zero, on its own stack.                                        *)
ZeroParse == [nMem |-> 0, nTab |-> 0, nMaxArg |-> 0, nLabel |-> 0, aLabel |-> <<>>]

(* What an engine routine finds when it looks for the assembly context *)
Context(parse) == [present |-> TRUE, parse |-> parse]

NoContext == [present |-> FALSE, parse |-> ZeroParse]

(* A newly created VM, as a record *)
NewVdbe ==
  [aOp |-> sqlite3VdbeCreate, nOp |-> 1, eVdbeState |-> VDBE_INIT_STATE,
   nMem |-> 0, nCursor |-> 0, aMem |-> <<>>, apCsr |-> <<>>, pc |-> 0,
   rc |-> SQLITE_OK, pParse |-> NULL]

Init ==
  /\ aOp = sqlite3VdbeCreate
  /\ nOp = 1
  /\ eVdbeState = VDBE_INIT_STATE
  /\ nMem = 0
  /\ nCursor = 0
  /\ aMem = <<>>
  /\ apCsr = <<>>
  /\ pc = 0
  /\ rc = SQLITE_OK
  /\ pParse = NULL
  /\ resultRow = 0
  /\ alive = "live"
  /\ last = Call("create", 0, 0, 0)
  /\ nRow = 0
  /\ lastRun = <<>>
  /\ issued = <<>>
  /\ resolvedAt = <<>>
  /\ refs = {}
  /\ declared = <<>>
  /\ statePath = <<VDBE_INIT_STATE>>
  /\ stepRet = 0 - 1
  /\ firstAt = <<>>
  /\ ctx = Context(ZeroParse)
  /\ vmB = NewVdbe
  /\ heap = [freed |-> 0, shared |-> FALSE]

---------------------------------------------------------------------------
(* Register access: sqlite3_vdbe_set_int .. sqlite3_vdbe_is_null *)

RegOutOfBounds(reg) == reg < 1 \/ reg > nMem

RegFrame == UNCHANGED <<aOp, nOp, eVdbeState, nMem, nCursor, apCsr, pc, rc,
                        pParse, resultRow, alive, nRow, lastRun, issued,
                        resolvedAt, refs, declared, statePath, stepRet,
                        firstAt, ctx, isoVars>>

(* set_int storing into the cell below the one asked for *)
sqlite3_vdbe_set_int_shifted(reg, value) ==
  /\ alive = "live"
  /\ IF RegOutOfBounds(reg)
       THEN /\ last' = Call("set_int", reg, value, SQLITE_ERROR)
            /\ aMem' = aMem
       ELSE /\ aMem' = [aMem EXCEPT ![reg - 1] = sqlite3VdbeMemSetInt64(value)]
            /\ last' = Call("set_int", reg, value, SQLITE_OK)
  /\ RegFrame

(* set_int storing the value and leaving the cell's tag as it was *)
sqlite3_vdbe_set_int_keeps_tag(reg, value) ==
  /\ alive = "live"
  /\ IF RegOutOfBounds(reg)
       THEN /\ last' = Call("set_int", reg, value, SQLITE_ERROR)
            /\ aMem' = aMem
       ELSE /\ aMem' = [aMem EXCEPT ![reg].u = value]
            /\ last' = Call("set_int", reg, value, SQLITE_OK)
  /\ RegFrame

sqlite3_vdbe_set_int(reg, value) ==
  /\ alive = "live"
  /\ IF RegOutOfBounds(reg)
       THEN /\ last' = Call("set_int", reg, value, SQLITE_ERROR)
            /\ aMem' = aMem
       ELSE /\ aMem' = [aMem EXCEPT ![reg] = sqlite3VdbeMemSetInt64(value)]
            /\ last' = Call("set_int", reg, value, SQLITE_OK)
  /\ RegFrame

sqlite3_vdbe_get_int(reg) ==
  /\ alive = "live"
  /\ last' = Call("get_int", reg, 0,
                  IF RegOutOfBounds(reg) THEN 0 ELSE sqlite3VdbeIntValue(aMem[reg]))
  /\ aMem' = aMem
  /\ RegFrame

(* set_double storing into the program array instead of the register array *)
sqlite3_vdbe_set_double_aOp(reg, value) ==
  /\ alive = "live"
  /\ IF RegOutOfBounds(reg)
       THEN /\ last' = Call("set_double", reg, value, SQLITE_ERROR)
            /\ UNCHANGED <<aMem, aOp>>
       ELSE /\ aOp' = [aOp EXCEPT ![reg].p1 = value]
            /\ aMem' = aMem
            /\ last' = Call("set_double", reg, value, SQLITE_OK)
  /\ UNCHANGED <<nOp, eVdbeState, nMem, nCursor, apCsr, pc, rc,
                 pParse, resultRow, alive, nRow, lastRun, issued,
                 resolvedAt, refs, declared, statePath, stepRet,
                 firstAt, ctx, isoVars>>

sqlite3_vdbe_set_double(reg, value) ==
  /\ alive = "live"
  /\ IF RegOutOfBounds(reg)
       THEN /\ last' = Call("set_double", reg, value, SQLITE_ERROR)
            /\ aMem' = aMem
       ELSE /\ aMem' = [aMem EXCEPT ![reg] = sqlite3VdbeMemSetDouble(value)]
            /\ last' = Call("set_double", reg, value, SQLITE_OK)
  /\ RegFrame

(* get_double answering 1.0 for an index it refuses *)
sqlite3_vdbe_get_double_default1(reg) ==
  /\ alive = "live"
  /\ last' = Call("get_double", reg, 0,
                  IF RegOutOfBounds(reg) THEN 2 ELSE sqlite3VdbeRealValue(aMem[reg]))
  /\ aMem' = aMem
  /\ RegFrame

sqlite3_vdbe_get_double(reg) ==
  /\ alive = "live"
  /\ last' = Call("get_double", reg, 0,
                  IF RegOutOfBounds(reg) THEN 0 ELSE sqlite3VdbeRealValue(aMem[reg]))
  /\ aMem' = aMem
  /\ RegFrame

(* set_null clearing every register of the file *)
sqlite3_vdbe_set_null_all(reg) ==
  /\ alive = "live"
  /\ IF RegOutOfBounds(reg)
       THEN /\ last' = Call("set_null", reg, 0, SQLITE_ERROR)
            /\ aMem' = aMem
       ELSE /\ aMem' = [i \in DOMAIN aMem |-> sqlite3VdbeMemSetNull]
            /\ last' = Call("set_null", reg, 0, SQLITE_OK)
  /\ RegFrame

(* set_null reporting success for an index it refused *)
sqlite3_vdbe_set_null_silent(reg) ==
  /\ alive = "live"
  /\ IF RegOutOfBounds(reg)
       THEN /\ last' = Call("set_null", reg, 0, SQLITE_OK)
            /\ aMem' = aMem
       ELSE /\ aMem' = [aMem EXCEPT ![reg] = sqlite3VdbeMemSetNull]
            /\ last' = Call("set_null", reg, 0, SQLITE_OK)
  /\ RegFrame

sqlite3_vdbe_set_null(reg) ==
  /\ alive = "live"
  /\ IF RegOutOfBounds(reg)
       THEN /\ last' = Call("set_null", reg, 0, SQLITE_ERROR)
            /\ aMem' = aMem
       ELSE /\ aMem' = [aMem EXCEPT ![reg] = sqlite3VdbeMemSetNull]
            /\ last' = Call("set_null", reg, 0, SQLITE_OK)
  /\ RegFrame

(* is_null with the flag test inverted *)
sqlite3_vdbe_is_null_inverted(reg) ==
  /\ alive = "live"
  /\ last' = Call("is_null", reg, 0,
                  IF RegOutOfBounds(reg) THEN 1
                  ELSE IF aMem[reg].flags = MEM_Null THEN 0 ELSE 1)
  /\ aMem' = aMem
  /\ RegFrame

sqlite3_vdbe_is_null(reg) ==
  /\ alive = "live"
  /\ last' = Call("is_null", reg, 0,
                  IF RegOutOfBounds(reg) THEN 1
                  ELSE IF aMem[reg].flags = MEM_Null THEN 1 ELSE 0)
  /\ aMem' = aMem
  /\ RegFrame

---------------------------------------------------------------------------
(* Introspection: sqlite3_vdbe_op_count, _state, _mem_count, _cursor_count *)

(* op_count leaving out the implicit init instruction *)
sqlite3_vdbe_op_count_less1 ==
  /\ alive = "live"
  /\ last' = Call("op_count", 0, 0, nOp - 1)
  /\ UNCHANGED <<vmVars, alive, obsVars, isoVars>>

sqlite3_vdbe_op_count ==
  /\ alive = "live"
  /\ last' = Call("op_count", 0, 0, nOp)
  /\ UNCHANGED <<vmVars, alive, obsVars, isoVars>>

(* state returning the VM's status code instead of its life-cycle state *)
sqlite3_vdbe_state_rc ==
  /\ alive = "live"
  /\ last' = Call("state", 0, 0, rc)
  /\ UNCHANGED <<vmVars, alive, obsVars, isoVars>>

sqlite3_vdbe_state ==
  /\ alive = "live"
  /\ last' = Call("state", 0, 0, eVdbeState)
  /\ UNCHANGED <<vmVars, alive, obsVars, isoVars>>

sqlite3_vdbe_mem_count ==
  /\ alive = "live"
  /\ last' = Call("mem_count", 0, 0, nMem)
  /\ UNCHANGED <<vmVars, alive, obsVars, isoVars>>

(* cursor_count giving the count away: the VM's count is zero afterwards *)
sqlite3_vdbe_cursor_count_clears ==
  /\ alive = "live"
  /\ last' = Call("cursor_count", 0, 0, nCursor)
  /\ nCursor' = 0
  /\ UNCHANGED <<aOp, nOp, eVdbeState, nMem, aMem, apCsr, pc, rc, pParse,
                 resultRow, alive, obsVars, isoVars>>

sqlite3_vdbe_cursor_count ==
  /\ alive = "live"
  /\ last' = Call("cursor_count", 0, 0, nCursor)
  /\ UNCHANGED <<vmVars, alive, obsVars, isoVars>>

---------------------------------------------------------------------------
(* Program assembly.  sqlite3VdbeAddOp0/AddOp2 append one instruction at    *)
(* the next free address and return that address.  The caller may pass as   *)
(* jump operand any label identifier make_label has returned.               *)

Range(f) == {f[i] : i \in DOMAIN f}

AsmOps ==
  {[opcode |-> OP_Integer, p1 |-> 42, p2 |-> 1],
   [opcode |-> OP_ResultRow, p1 |-> 1, p2 |-> 1],
   [opcode |-> OP_Halt, p1 |-> 0, p2 |-> 0]}
  \cup {[opcode |-> OP_Goto, p1 |-> 0, p2 |-> l] : l \in Range(issued)}

(* Appending is defined only before the ready transition (spec 4.1) *)
MayAppend == eVdbeState = VDBE_INIT_STATE

sqlite3VdbeAddOp(op) ==
  /\ alive = "live"
  /\ MayAppend
  /\ nOp < MaxOps
  /\ aOp' = Append(aOp, op)
  /\ nOp' = nOp + 1
  /\ last' = Call("append", 0, 0, nOp)
  /\ refs' = IF op.opcode = OP_Goto /\ op.p2 < 0
               THEN refs \cup {<<nOp, op.p2>>} ELSE refs
  /\ UNCHANGED <<eVdbeState, nMem, nCursor, aMem, apCsr, pc, rc, pParse,
                 resultRow, alive, nRow, lastRun, issued, resolvedAt, declared,
                 statePath, stepRet, firstAt, ctx, isoVars>>

---------------------------------------------------------------------------
(* Labels.  Each helper builds its temporary assembly context on its own   *)
(* stack.                                                                   *)

(* The label table lives in the assembly context: a new label is the next   *)
(* negative identifier after the nLabel labels the context already holds.   *)
sqlite3VdbeMakeLabel(parse) == 0 - (parse.nLabel + 1)

(* Index of label x in the context's label table *)
ADDR(x) == (0 - x) - 1

sqlite3_vdbe_make_label ==
  /\ alive = "live"
  /\ Len(issued) < MaxLabels
  /\ LET sParse == ZeroParse
         label == sqlite3VdbeMakeLabel(sParse)
     IN /\ issued' = Append(issued, label)
        /\ last' = Call("make_label", 0, 0, label)
        /\ ctx' = Context(sParse)
  /\ pParse' = NULL
  /\ UNCHANGED <<aOp, nOp, eVdbeState, nMem, nCursor, aMem, apCsr, pc, rc,
                 resultRow, alive, nRow, lastRun, resolvedAt, refs, declared,
                 statePath, stepRet, firstAt, isoVars>>

(* sqlite3VdbeResolveLabel(v, x) reaches the label table through            *)
(* v->pParse.  The helper calls it without attaching a context, and every   *)
(* helper leaves p->pParse == 0 behind, so the call dereferences a null     *)
(* pointer: it either kills the process or returns with nothing bound.      *)
Bind(f, k, v) == [x \in DOMAIN f \cup {k} |-> IF x = k THEN v ELSE f[x]]

LabelArgs == (0 - MaxLabels)..(0 - 1)

sqlite3_vdbe_resolve_label(label) ==
  /\ alive = "live"
  /\ pParse = NULL
  /\ \/ /\ alive' = "crashed"
        /\ last' = Call("resolve_label", 0, label, 0)
        /\ UNCHANGED <<resolvedAt, firstAt>>
     \/ /\ alive' = alive
        /\ last' = Call("resolve_label", 0, label, 0)
        /\ resolvedAt' = IF eVdbeState = VDBE_INIT_STATE
                            THEN Bind(resolvedAt, label, nOp) ELSE resolvedAt
        /\ firstAt' = IF eVdbeState = VDBE_INIT_STATE /\ label \notin DOMAIN firstAt
                         THEN Bind(firstAt, label, nOp) ELSE firstAt
  /\ ctx' = IF pParse = NULL THEN NoContext ELSE Context(pParse)
  /\ UNCHANGED <<vmVars, nRow, lastRun, issued, refs, declared, statePath, stepRet,
                 isoVars>>

---------------------------------------------------------------------------
(* sqlite3_vdbe_make_ready(p, nMem, nCursor)                                *)

IsLabelJump(op) == op.opcode = OP_Goto /\ op.p2 < 0

UsedLabels == {aOp[i].p2 : i \in {j \in 1..nOp : IsLabelJump(aOp[j])}}

(* The jump-resolution pass of sqlite3VdbeMakeReady: a negative jump        *)
(* operand is replaced by the entry of the context's label table; an        *)
(* operand with no entry is replaced by whatever the out-of-range read      *)
(* yields (garbage[l]).                                                     *)
resolveP2Values(parse, garbage) ==
  [i \in 1..nOp |->
     IF IsLabelJump(aOp[i])
       THEN [aOp[i] EXCEPT !.p2 =
               IF ADDR(aOp[i].p2) < Len(parse.aLabel)
                 THEN parse.aLabel[ADDR(aOp[i].p2) + 1]
                 ELSE garbage[aOp[i].p2]]
       ELSE aOp[i]]

Unbound(parse) == {l \in UsedLabels : ADDR(l) >= Len(parse.aLabel)}

sqlite3VdbeMakeReady(parse, garbage) ==
  /\ aOp' = resolveP2Values(parse, garbage)
  /\ nMem' = parse.nMem
  /\ nCursor' = parse.nTab
  /\ aMem' = [i \in 0..parse.nMem |-> NullCell]
  /\ apCsr' = [i \in 0..(parse.nTab - 1) |-> "empty"]
  /\ eVdbeState' = VDBE_READY_STATE
  /\ pc' = 0
  /\ rc' = SQLITE_OK
  /\ resultRow' = 0

(* The temporary Parse with the register count never filled in *)
MakeReadyParse_lost_nMem(nMemArg, nCursorArg) ==
  [ZeroParse EXCEPT !.nTab = nCursorArg, !.nMaxArg = 0]

(* The temporary Parse with the two counts swapped *)
MakeReadyParse_swapped(nMemArg, nCursorArg) ==
  [ZeroParse EXCEPT !.nMem = nCursorArg, !.nTab = nMemArg, !.nMaxArg = 0]

(* The temporary Parse the helper hands to sqlite3VdbeMakeReady *)
MakeReadyParse(nMemArg, nCursorArg) ==
  [ZeroParse EXCEPT !.nMem = nMemArg, !.nTab = nCursorArg, !.nMaxArg = 0]

(* make_ready is defined only once, on a VM still being assembled (spec     *)
(* 4.2); the helper itself has no check, and the model leaves a repeated    *)
(* call out.                                                                *)
MayMakeReady == eVdbeState = VDBE_INIT_STATE

sqlite3_vdbe_make_ready(nMemArg, nCursorArg) ==
  /\ alive = "live"
  /\ MayMakeReady
  /\ LET sParse == MakeReadyParse(nMemArg, nCursorArg)
     IN \/ /\ \E garbage \in [Unbound(sParse) -> 0..nOp] :
                sqlite3VdbeMakeReady(sParse, garbage)
           /\ pParse' = NULL
           /\ alive' = alive
           /\ declared' = <<nMemArg, nCursorArg>>
           /\ statePath' = <<eVdbeState, VDBE_READY_STATE>>
        \/ /\ Unbound(sParse) # {}
           /\ alive' = "crashed"
           /\ UNCHANGED <<vmVars, declared, statePath>>
  /\ last' = Call("make_ready", nMemArg, nCursorArg, 0)
  /\ ctx' = Context(MakeReadyParse(nMemArg, nCursorArg))
  /\ UNCHANGED <<nOp, nRow, lastRun, issued, resolvedAt, refs, stepRet, firstAt,
                 isoVars>>

---------------------------------------------------------------------------
(* sqlite3_step: runs instructions from the instruction pointer until one   *)
(* produces a row or the program halts.                                     *)

Fuel == 2 * MaxOps + 2

Halted(st, code) ==
  [st EXCEPT !.state = VDBE_HALT_STATE, !.rc = code, !.ret = code, !.done = TRUE,
             !.path = Append(st.path, VDBE_HALT_STATE)]

(* The storage engine reports busy: the step returns with the VM still      *)
(* running and the instruction pointer on the instruction to retry          *)
StorageBusy_halts(st, run) == Halted(run, SQLITE_BUSY)

StorageBusy(st, run) ==
  [run EXCEPT !.rc = SQLITE_BUSY, !.ret = SQLITE_BUSY, !.done = TRUE, !.pc = st.pc]

ExecOne(st) ==
  IF st.pc < 0 \/ st.pc >= nOp THEN Halted(st, SQLITE_DONE)
  ELSE
    LET op == aOp[st.pc + 1]
        run == [st EXCEPT !.trace = Append(st.trace, st.pc)]
    IN CASE op.opcode = OP_Init -> [run EXCEPT !.pc = op.p2]
         [] op.opcode = OP_Goto -> [run EXCEPT !.pc = op.p2]
         [] op.opcode = OP_Integer ->
              IF op.p2 >= 1 /\ op.p2 <= nMem
                THEN [run EXCEPT !.aMem[op.p2] = sqlite3VdbeMemSetInt64(op.p1),
                                 !.pc = st.pc + 1]
                ELSE Halted(run, SQLITE_ERROR)
         [] op.opcode = OP_ResultRow ->
              IF op.p1 >= 1 /\ op.p1 + op.p2 - 1 <= nMem
                THEN [run EXCEPT !.row = op.p1, !.pc = st.pc + 1,
                                 !.ret = SQLITE_ROW, !.done = TRUE]
                ELSE Halted(run, SQLITE_ERROR)
         [] op.opcode = OP_OpenRead ->
              IF op.p1 < 0 \/ op.p1 >= nCursor THEN Halted(run, SQLITE_ERROR)
              ELSE IF st.busy THEN StorageBusy(st, run)
              ELSE [run EXCEPT !.apCsr[op.p1] = "open", !.pc = st.pc + 1]
         [] op.opcode = OP_Halt -> Halted(run, SQLITE_DONE)

RECURSIVE sqlite3VdbeExec(_, _)
sqlite3VdbeExec(st, fuel) ==
  IF st.done THEN st
  ELSE IF fuel = 0 THEN [st EXCEPT !.hang = TRUE]
  ELSE sqlite3VdbeExec(ExecOne(st), fuel - 1)

StepFrame == UNCHANGED <<aOp, nOp, nMem, nCursor, pParse, issued,
                         resolvedAt, refs, declared, firstAt, ctx, isoVars>>

(* A step call that runs the program from address pc0; busy tells whether  *)
(* the storage engine is busy during the call                               *)
StepFrom(pc0) ==
  \E busy \in BOOLEAN :
  LET start == [pc |-> pc0,
                aMem |-> aMem, apCsr |-> apCsr, busy |-> busy,
                state |-> VDBE_RUN_STATE, rc |-> SQLITE_OK,
                ret |-> SQLITE_OK, row |-> 0, trace |-> <<>>,
                done |-> FALSE, hang |-> FALSE,
                path |-> <<eVdbeState, VDBE_RUN_STATE>>]
      end == sqlite3VdbeExec(start, Fuel)
  IN /\ eVdbeState' = end.state
     /\ aMem' = end.aMem
     /\ apCsr' = end.apCsr
     /\ pc' = end.pc
     /\ rc' = end.rc
     /\ resultRow' = end.row
     /\ lastRun' = end.trace
     /\ alive' = IF end.hang THEN "hung" ELSE alive
     /\ nRow' = IF end.ret = SQLITE_ROW THEN nRow + 1 ELSE nRow
     /\ last' = Call("step", 0, 0, end.ret)
     /\ stepRet' = end.ret
     /\ statePath' = end.path

(* A step call on a VM that is READY or RUNNING *)
StepRun == StepFrom(IF eVdbeState = VDBE_READY_STATE THEN 0 ELSE pc)

(* A step call on a HALTED VM that runs the program again from address 0 *)
StepHalted_rerun == StepFrom(0)

(* A step call on a HALTED VM: nothing runs; the recorded status is         *)
(* reported again.                                                          *)
StepHalted ==
  /\ last' = Call("step", 0, 0, IF rc = SQLITE_OK THEN SQLITE_DONE ELSE rc)
  /\ stepRet' = IF rc = SQLITE_OK THEN SQLITE_DONE ELSE rc
  /\ lastRun' = <<>>
  /\ statePath' = <<eVdbeState>>
  /\ UNCHANGED <<eVdbeState, aMem, apCsr, pc, rc, resultRow, alive, nRow>>

(* Stepping is defined only after the ready transition (spec 7) *)
MayStep == eVdbeState # VDBE_INIT_STATE

sqlite3_step ==
  /\ alive = "live"
  /\ MayStep
  /\ nRow < MaxRows
  /\ IF eVdbeState = VDBE_HALT_STATE THEN StepHalted ELSE StepRun
  /\ StepFrame

(* sqlite3_column_int(stmt, 0) after a step that returned SQLITE_ROW *)
sqlite3_column_int(col) ==
  IF resultRow = 0 THEN 0 ELSE sqlite3VdbeIntValue(aMem[resultRow + col])

---------------------------------------------------------------------------
(* sqlite3_finalize: releases the program, the registers and the cursors *)

sqlite3_finalize ==
  /\ alive = "live"
  /\ alive' = "finalized"
  /\ aOp' = <<>>
  /\ nOp' = 0
  /\ aMem' = <<>>
  /\ apCsr' = <<>>
  /\ nMem' = 0
  /\ nCursor' = 0
  /\ pc' = 0
  /\ rc' = SQLITE_OK
  /\ resultRow' = 0
  /\ eVdbeState' = VDBE_HALT_STATE
  /\ pParse' = NULL
  /\ last' = Call("finalize", 0, 0, 0)
  /\ nRow' = 0
  /\ lastRun' = <<>>
  /\ issued' = <<>>
  /\ resolvedAt' = <<>>
  /\ refs' = {}
  /\ declared' = <<>>
  /\ statePath' = <<VDBE_HALT_STATE>>
  /\ stepRet' = 0 - 1
  /\ firstAt' = <<>>
  /\ ctx' = NoContext
  /\ heap' = [heap EXCEPT !.freed = nMem]
  /\ vmB' = vmB

---------------------------------------------------------------------------
(* A second VM, and calls made through the handle of a finalized VM.        *)
(* The helpers run on vmB exactly as they run on the first VM.  finalize    *)
(* frees the first VM; the allocator may hand the block of its register     *)
(* array to an allocation made afterwards.                                  *)

IsoFrame == UNCHANGED <<vmVars, obsVars>>

B_make_ready(nMemArg, nCursorArg) ==
  /\ alive \in {"live", "finalized"}
  /\ vmB.eVdbeState = VDBE_INIT_STATE
  /\ LET sParse == MakeReadyParse(nMemArg, nCursorArg)
     IN vmB' = [vmB EXCEPT !.nMem = sParse.nMem,
                           !.nCursor = sParse.nTab,
                           !.aMem = [i \in 0..sParse.nMem |-> NullCell],
                           !.apCsr = [i \in 0..(sParse.nTab - 1) |-> "empty"],
                           !.eVdbeState = VDBE_READY_STATE,
                           !.pParse = NULL]
  /\ \E reuse \in BOOLEAN :
       /\ reuse => (alive = "finalized" /\ nMemArg >= 1 /\ nMemArg <= heap.freed)
       /\ heap' = [heap EXCEPT !.shared = reuse]
  /\ last' = Call("B.make_ready", nMemArg, nCursorArg, 0)
  /\ alive' = alive
  /\ IsoFrame

B_set_int(reg, value) ==
  /\ alive \in {"live", "finalized"}
  /\ IF reg < 1 \/ reg > vmB.nMem
       THEN /\ last' = Call("B.set_int", reg, value, SQLITE_ERROR)
            /\ vmB' = vmB
       ELSE /\ vmB' = [vmB EXCEPT !.aMem[reg] = sqlite3VdbeMemSetInt64(value)]
            /\ last' = Call("B.set_int", reg, value, SQLITE_OK)
  /\ UNCHANGED <<alive, heap>>
  /\ IsoFrame

(* sqlite3_vdbe_set_int(p, reg, value) with p the handle of a finalized     *)
(* VM: p is not null, so the helper reads p->nMem and p->aMem from freed    *)
(* memory.  stale is what the read of p->nMem yields.  A store through      *)
(* p->aMem ends the process, lands in memory nothing uses, or lands in the  *)
(* block that now holds vmB's register array.                               *)
sqlite3_vdbe_set_int_after_finalize(reg, value) ==
  /\ alive = "finalized"
  /\ \E stale \in 0..MaxReg :
       IF reg < 1 \/ reg > stale
         THEN /\ last' = Call("set_int", reg, value, SQLITE_ERROR)
              /\ UNCHANGED <<vmB, alive>>
         ELSE \/ /\ alive' = "crashed"
                 /\ last' = Call("set_int", reg, value, 0)
                 /\ vmB' = vmB
              \/ /\ alive' = alive
                 /\ last' = Call("set_int", reg, value, SQLITE_OK)
                 /\ vmB' = IF heap.shared /\ reg <= vmB.nMem
                             THEN [vmB EXCEPT !.aMem[reg] = sqlite3VdbeMemSetInt64(value)]
                             ELSE vmB
  /\ heap' = heap
  /\ IsoFrame

---------------------------------------------------------------------------

(* The assembly and execution life cycle *)
Next ==
  \/ \E op \in AsmOps : sqlite3VdbeAddOp(op)
  \/ \E n \in 0..MaxReg, m \in 0..MaxCur : sqlite3_vdbe_make_ready(n, m)
  \/ sqlite3_step
  \/ sqlite3_finalize
  \/ sqlite3_vdbe_op_count
  \/ sqlite3_vdbe_state
  \/ sqlite3_vdbe_mem_count
  \/ sqlite3_vdbe_cursor_count
  \/ sqlite3_vdbe_set_int(1, 0 - 7)

Spec == Init /\ [][Next]_vars

(* Assembly with labels, then execution on a VM sized to the largest         *)
(* counts; the programs load a register, jump and halt                      *)
NextLabel ==
  \/ \E op \in AsmOps : op.opcode # OP_ResultRow /\ sqlite3VdbeAddOp(op)
  \/ sqlite3_vdbe_make_label
  \/ \E label \in LabelArgs : sqlite3_vdbe_resolve_label(label)
  \/ sqlite3_vdbe_make_ready(MaxReg, MaxCur)
  \/ sqlite3_step
  \/ sqlite3_finalize

SpecLabel == Init /\ [][NextLabel]_vars

(* Register access on a sized VM whose program loads a register *)
NextReg ==
  \/ /\ nOp < MaxRegOps
     /\ sqlite3VdbeAddOp([opcode |-> OP_Integer, p1 |-> 42, p2 |-> 1])
  \/ \E n \in 0..MaxReg, m \in 0..MaxCur : sqlite3_vdbe_make_ready(n, m)
  \/ sqlite3_step
  \/ sqlite3_finalize
  \/ \E reg \in RegArgs, value \in IntVals : sqlite3_vdbe_set_int(reg, value)
  \/ \E reg \in RegArgs : sqlite3_vdbe_get_int(reg)
  \/ \E reg \in RegArgs, value \in DblVals : sqlite3_vdbe_set_double(reg, value)
  \/ \E reg \in RegArgs : sqlite3_vdbe_get_double(reg)
  \/ \E reg \in RegArgs : sqlite3_vdbe_set_null(reg)
  \/ \E reg \in RegArgs : sqlite3_vdbe_is_null(reg)
  \/ sqlite3_vdbe_mem_count
  \/ sqlite3_vdbe_cursor_count

SpecReg == Init /\ [][NextReg]_vars

(* Programs whose instructions can fail or find the storage engine busy *)
RunOps ==
  {[opcode |-> OP_Integer, p1 |-> 42, p2 |-> 1],
   [opcode |-> OP_Integer, p1 |-> 42, p2 |-> 2],
   [opcode |-> OP_OpenRead, p1 |-> 0, p2 |-> 0],
   [opcode |-> OP_ResultRow, p1 |-> 1, p2 |-> 1],
   [opcode |-> OP_Halt, p1 |-> 0, p2 |-> 0]}

NextRun ==
  \/ \E op \in RunOps : sqlite3VdbeAddOp(op)
  \/ \E n \in 0..MaxReg, m \in 0..MaxCur : sqlite3_vdbe_make_ready(n, m)
  \/ sqlite3_step
  \/ sqlite3_finalize

SpecRun == Init /\ [][NextRun]_vars

(* Two VMs; the first may be finalized and its handle used afterwards *)
NextIso ==
  \/ \E n \in 0..MaxReg, m \in 0..MaxCur : sqlite3_vdbe_make_ready(n, m)
  \/ sqlite3_vdbe_set_int(1, 0 - 7)
  \/ sqlite3_finalize
  \/ \E n \in 0..MaxReg, m \in 0..MaxCur : B_make_ready(n, m)
  \/ \E reg \in RegArgs, value \in IntVals : B_set_int(reg, value)
  \/ \E reg \in RegArgs, value \in IntVals :
       sqlite3_vdbe_set_int_after_finalize(reg, value)

SpecIso == Init /\ [][NextIso]_vars

---------------------------------------------------------------------------
(* Properties *)

Setters == {"set_int", "set_double", "set_null"}

(* The register range [1, N] the caller declared with make_ready(N, M) *)
DeclaredRegs == IF declared = <<>> THEN {} ELSE 1..declared[1]

C1_Act ==
  /\ (declared' # <<>> /\ last'.op \in Setters /\ last'.reg \in 1..declared'[1])
       => last'.ret = SQLITE_OK
  /\ (last.op = "set_int" /\ last.reg \in DeclaredRegs
      /\ last'.op = "get_int" /\ last'.reg = last.reg)
       => last'.ret = last.val
  /\ (last.op = "set_double" /\ last.reg \in DeclaredRegs
      /\ last'.op = "get_double" /\ last'.reg = last.reg)
       => last'.ret = last.val
  /\ (last.op = "set_null" /\ last.reg \in DeclaredRegs
      /\ last'.op = "is_null" /\ last'.reg = last.reg)
       => last'.ret = 1

C2_Act ==
  (declared' # <<>> /\ alive' = "live" /\ last'.reg \notin 1..declared'[1]) =>
    /\ last'.op \in Setters => (last'.ret = SQLITE_ERROR /\ aMem' = aMem)
    /\ last'.op = "get_int" => last'.ret = 0
    /\ last'.op = "get_double" => last'.ret = 0
    /\ last'.op = "is_null" => last'.ret = 1

(* C2: after make_ready(N, M), for every index outside [1, N] get_int       *)
(* returns 0, get_double returns 0.0, is_null returns true, and each        *)
(* setter returns a failure code and leaves every cell of the register      *)
(* array, the reserved cell 0 included, unchanged.                          *)
C2_OutOfRange == [][C2_Act]_vars

(* A setter was refused at index N+1 while register N holds a value *)
C2_Witness ==
  /\ declared # <<>>
  /\ declared[1] >= 1
  /\ last.op = "set_int"
  /\ last.reg = declared[1] + 1
  /\ last.ret = SQLITE_ERROR
  /\ aMem[declared[1]].flags = MEM_Real

(* C8: after make_ready(register_count, cursor_count) the register-count    *)
(* accessor returns register_count and the cursor-count accessor returns    *)
(* cursor_count, whatever setters and steps have run since.                 *)
C8_Counts ==
  (declared # <<>> /\ alive # "finalized") =>
    /\ nMem = declared[1]
    /\ nCursor = declared[2]
    /\ last.op = "mem_count" => last.ret = declared[1]
    /\ last.op = "cursor_count" => last.ret = declared[2]

(* The cursor count was read, and differs from the register count, after a  *)
(* step ran and a setter stored a value                                     *)
C8_Witness ==
  /\ declared # <<>>
  /\ declared[1] >= 1
  /\ declared[1] # declared[2]
  /\ last.op = "cursor_count"
  /\ last.ret = declared[2]
  /\ stepRet # 0 - 1
  /\ aMem[1].flags = MEM_Real

C9_Act ==
  (last.op = "make_ready" /\ alive = "live"
   /\ last'.op = "is_null" /\ last'.reg \in DeclaredRegs)
    => last'.ret = 1

TestProgram ==
  <<[opcode |-> OP_Init, p1 |-> 0, p2 |-> 1],
    [opcode |-> OP_Integer, p1 |-> 42, p2 |-> 1],
    [opcode |-> OP_ResultRow, p1 |-> 1, p2 |-> 1],
    [opcode |-> OP_Halt, p1 |-> 0, p2 |-> 0]>>

(* C5: the program [init, load 42 into register 1, emit register 1, halt],  *)
(* made ready with 2 registers and 0 cursors: the first step returns a row  *)
(* whose column 0 reads 42, no second row is ever produced, and the step    *)
(* after the row leaves the VM HALTED with SQLITE_DONE.                     *)
C5_TestSimple ==
  (aOp = TestProgram /\ declared = <<2, 0>> /\ alive # "finalized") =>
    /\ alive = "live"
    /\ nRow <= 1
    /\ stepRet # 0 - 1 => nRow = 1
    /\ (last.op = "step" /\ stepRet = SQLITE_ROW) =>
         (sqlite3_column_int(0) = 42 /\ eVdbeState = VDBE_RUN_STATE)
    /\ (stepRet # 0 - 1 /\ stepRet # SQLITE_ROW) =>
         (stepRet = SQLITE_DONE /\ eVdbeState = VDBE_HALT_STATE)

(* The test program has produced its row and then halted *)
C5_Witness ==
  /\ aOp = TestProgram
  /\ declared = <<2, 0>>
  /\ last.op = "step"
  /\ stepRet = SQLITE_DONE
  /\ nRow = 1
  /\ eVdbeState = VDBE_HALT_STATE

C6_Expected ==
  IF declared = <<>> THEN VDBE_INIT_STATE
  ELSE IF stepRet = 0 - 1 THEN VDBE_READY_STATE
  ELSE IF stepRet = SQLITE_ROW THEN VDBE_RUN_STATE
  ELSE VDBE_HALT_STATE

C6_Allowed ==
  {<<VDBE_INIT_STATE, VDBE_READY_STATE>>, <<VDBE_READY_STATE, VDBE_RUN_STATE>>,
   <<VDBE_RUN_STATE, VDBE_RUN_STATE>>, <<VDBE_RUN_STATE, VDBE_HALT_STATE>>}

C6_Act ==
  alive' # "finalized" =>
    /\ eVdbeState' # eVdbeState => last'.op \in {"make_ready", "step"}
    /\ last'.op = "make_ready" =>
         (eVdbeState = VDBE_INIT_STATE /\ eVdbeState' = VDBE_READY_STATE)
    /\ last'.op = "step" =>
         /\ statePath'[1] = eVdbeState
         /\ statePath'[Len(statePath')] = eVdbeState'
         /\ \A i \in 1..(Len(statePath') - 1) :
              <<statePath'[i], statePath'[i + 1]>> \in C6_Allowed

(* C6: the state accessor returns INIT before make_ready, READY between     *)
(* make_ready and the first step, RUNNING after a step that produced a row  *)
(* and HALTED after a step that ended the run; the state changes only by    *)
(* INIT->READY in make_ready and by READY->RUNNING, RUNNING->RUNNING and    *)
(* RUNNING->HALTED inside step.                                             *)
C6_Lifecycle ==
  /\ []((last.op = "state" /\ alive = "live") => last.ret = C6_Expected)
  /\ [][C6_Act]_vars

(* The accessor reported RUNNING between two steps *)
C6_Witness ==
  /\ last.op = "state"
  /\ last.ret = VDBE_RUN_STATE
  /\ nRow = 1

C7_Act ==
  (eVdbeState = VDBE_HALT_STATE /\ alive = "live" /\ alive' # "finalized") =>
    /\ eVdbeState' = VDBE_HALT_STATE
    /\ last'.op = "step" =>
         /\ lastRun' = <<>>
         /\ last'.ret # SQLITE_ROW
         /\ UNCHANGED <<nRow, aMem, pc, resultRow, alive>>

(* C7: once the VM is HALTED every call short of finalize leaves it         *)
(* HALTED, and a step call executes no instruction, produces no row and     *)
(* changes neither registers nor instruction pointer.                       *)
C7_HaltedTerminal == [][C7_Act]_vars

(* A step was called on a VM that had halted after producing a row *)
C7_Witness ==
  /\ last.op = "step"
  /\ statePath = <<VDBE_HALT_STATE>>
  /\ eVdbeState = VDBE_HALT_STATE
  /\ alive = "live"
  /\ nRow = 1

C10_Act ==
  /\ last'.op = "append" =>
       /\ last'.ret = nOp
       /\ last'.ret = Len(aOp)
       /\ last'.ret >= 1
       /\ nOp' = nOp + 1
       /\ Len(aOp') = nOp'
  /\ (eVdbeState' = VDBE_INIT_STATE /\ alive' # "finalized") => nOp' >= nOp
  /\ (last.op = "create" /\ last'.op = "op_count") => last'.ret = 1
  /\ (last.op = "append" /\ last'.op = "op_count") => last'.ret = last.ret + 1

(* C10: a new VM has instruction count 1; in the assembly phase the k-th    *)
(* append returns address k, the instruction count observed just before     *)
(* it, and raises the count to k+1; the count never decreases.              *)
C10_Append ==
  /\ [](last.op = "create" => nOp = 1)
  /\ [][C10_Act]_vars

(* The instruction count was read after the last append the bound allows *)
C10_Witness ==
  /\ last.op = "op_count"
  /\ last.ret = MaxOps
  /\ eVdbeState = VDBE_INIT_STATE

C11_Act ==
  (last.op = "make_ready" /\ alive = "live" /\ nOp = 1 /\ last'.op = "step") =>
    /\ last'.ret = SQLITE_DONE
    /\ eVdbeState' = VDBE_HALT_STATE
    /\ alive' = "live"
    /\ nRow' = 0
    /\ resultRow' = 0

(* C11: on a VM with no appended opcode, the step right after make_ready    *)
(* returns SQLITE_DONE, leaves the VM HALTED and produces no row.           *)
C11_EmptyProgram == [][C11_Act]_vars

(* The empty program was stepped once: the init instruction ran, then the   *)
(* VM halted                                                                *)
C11_Witness ==
  /\ nOp = 1
  /\ last.op = "step"
  /\ stepRet = SQLITE_DONE
  /\ statePath = <<VDBE_READY_STATE, VDBE_RUN_STATE, VDBE_HALT_STATE>>
  /\ lastRun = <<0>>
  /\ nRow = 0

Accessors == {"op_count", "state", "mem_count", "cursor_count"}

C13_Act ==
  last'.op \in Accessors =>
    UNCHANGED <<aOp, nOp, eVdbeState, nMem, nCursor, aMem, apCsr, pc, rc,
                resultRow, alive>>

(* C13: each of the four accessors can be called in every life-cycle state  *)
(* of a live VM, and a call leaves the program, the registers, the cursor   *)
(* table, the counts, the life-cycle state and the instruction pointer as   *)
(* they were.                                                               *)
C13_ReadOnly ==
  /\ [](alive = "live" =>
          /\ ENABLED sqlite3_vdbe_op_count
          /\ ENABLED sqlite3_vdbe_state
          /\ ENABLED sqlite3_vdbe_mem_count
          /\ ENABLED sqlite3_vdbe_cursor_count)
  /\ [][C13_Act]_vars

(* The cursor count was read on a running VM that has a cursor slot and a   *)
(* loaded register                                                          *)
C13_Witness ==
  /\ last.op = "cursor_count"
  /\ last.ret = MaxCur
  /\ eVdbeState = VDBE_RUN_STATE
  /\ nCursor = MaxCur
  /\ nMem >= 1
  /\ aMem[1].flags = MEM_Int

C14_Act ==
  (eVdbeState # VDBE_INIT_STATE /\ alive' # "finalized") =>
    /\ UNCHANGED <<aOp, nOp>>
    /\ last'.op \in (Setters \cup {"step"}) => Len(aOp') = nOp'

(* C14: once make_ready has returned, no step and no register setter        *)
(* changes the instruction count or any opcode record.                      *)
C14_Frozen == [][C14_Act]_vars

(* After make_ready a step ran the program and a setter then stored a       *)
(* double in register 1                                                     *)
C14_Witness ==
  /\ declared # <<>>
  /\ nOp = MaxRegOps
  /\ stepRet = SQLITE_DONE
  /\ last.op = "set_double"
  /\ last.reg = 1
  /\ last.ret = SQLITE_OK

C17_Act ==
  /\ (last'.op = "set_int" /\ last'.ret = SQLITE_OK) =>
       aMem'[last'.reg] = [flags |-> MEM_Int, u |-> last'.val]
  /\ (last'.op = "set_null" /\ last'.ret = SQLITE_OK) =>
       aMem'[last'.reg] = NullCell
  /\ (last.op = "set_int" /\ last.reg \in DeclaredRegs
      /\ last'.op = "is_null" /\ last'.reg = last.reg)
       => last'.ret = 0
  /\ (last.op = "set_null" /\ last.reg \in DeclaredRegs
      /\ last'.op = "get_int" /\ last'.reg = last.reg)
       => last'.ret = 0

C18_Act ==
  (last'.op \in Setters /\ last'.ret = SQLITE_OK) =>
    /\ DOMAIN aMem' = DOMAIN aMem
    /\ \A r \in DOMAIN aMem : r # last'.reg => aMem'[r] = aMem[r]
    /\ UNCHANGED <<aOp, nOp, eVdbeState, nMem, nCursor, apCsr, pc, rc, resultRow>>

C19_Act ==
  (eVdbeState' = VDBE_INIT_STATE /\ alive' = "live") =>
    /\ last'.op \in Setters => (last'.ret = SQLITE_ERROR /\ aMem' = aMem)
    /\ last'.op = "get_int" => last'.ret = 0
    /\ last'.op = "get_double" => last'.ret = 0
    /\ last'.op = "is_null" => last'.ret = 1
    /\ last'.op = "mem_count" => last'.ret = 0

(* C19: while the VM is in INIT the register count is 0 and the register    *)
(* array is unallocated; every index is refused by the bounds check, so     *)
(* each setter returns SQLITE_ERROR and stores nothing, get_int and         *)
(* get_double return 0 and is_null returns true.                            *)
C19_BeforeReady ==
  /\ []((eVdbeState = VDBE_INIT_STATE /\ alive = "live") =>
          /\ nMem = 0
          /\ aMem = <<>>
          /\ \A reg \in RegArgs : RegOutOfBounds(reg))
  /\ [][C19_Act]_vars

(* get_double was asked for register 1 while the program was still being    *)
(* assembled                                                                *)
C19_Witness ==
  /\ eVdbeState = VDBE_INIT_STATE
  /\ nOp = MaxRegOps
  /\ last.op = "get_double"
  /\ last.reg = 1
  /\ last.ret = 0

(* Whether the jump at address a, as the program stands, goes to address k: *)
(* its operand is k, and whenever the last step executed it the next        *)
(* instruction executed was the one at k.                                   *)
C3_JumpGoesTo(a, k) ==
  /\ aOp[a + 1].p2 = k
  /\ \A i \in 1..(Len(lastRun) - 1) : lastRun[i] = a => lastRun[i + 1] = k

(* C3: a label created with make_label, given as operand to a jump and      *)
(* resolved with resolve_label when the program held k instructions makes   *)
(* that jump, after make_ready, transfer control to address k.              *)
C3_LabelJump ==
  (alive = "live" /\ declared # <<>>) =>
    \A ref \in refs :
      ref[2] \in DOMAIN resolvedAt => C3_JumpGoesTo(ref[1], resolvedAt[ref[2]])

(* C4: in the assembly phase make_label returns a negative identifier, and  *)
(* two labels that are both still unresolved never share an identifier.     *)
C4_FreshLabels ==
  eVdbeState = VDBE_INIT_STATE =>
    \A i \in DOMAIN issued :
      /\ issued[i] < 0
      /\ \A j \in DOMAIN issued :
           (i # j /\ issued[i] \notin DOMAIN resolvedAt
                  /\ issued[j] \notin DOMAIN resolvedAt)
             => issued[i] # issued[j]

(* The registers and cursor slots after the instructions at the given       *)
(* addresses have each taken their full effect                              *)
RECURSIVE C15_Effect(_, _, _)
C15_Effect(mem, csr, addrs) ==
  IF addrs = <<>> THEN [aMem |-> mem, apCsr |-> csr]
  ELSE LET op == aOp[Head(addrs) + 1]
       IN C15_Effect(
            IF op.opcode = OP_Integer
              THEN [mem EXCEPT ![op.p2] = [flags |-> MEM_Int, u |-> op.p1]]
              ELSE mem,
            IF op.opcode = OP_OpenRead
              THEN [csr EXCEPT ![op.p1] = "open"]
              ELSE csr,
            Tail(addrs))

C15_Act ==
  /\ (last'.op = "step" /\ alive' = "live"
      /\ last'.ret \notin {SQLITE_ROW, SQLITE_DONE}) =>
       IF lastRun' = <<>>
         THEN /\ eVdbeState = VDBE_HALT_STATE
              /\ last'.ret = rc
              /\ UNCHANGED <<eVdbeState, rc, pc, aMem, apCsr>>
         ELSE LET failing == lastRun'[Len(lastRun')]
                  before == C15_Effect(aMem, apCsr,
                                       SubSeq(lastRun', 1, Len(lastRun') - 1))
              IN /\ aMem' = before.aMem
                 /\ apCsr' = before.apCsr
                 /\ \/ /\ eVdbeState' = VDBE_HALT_STATE
                       /\ rc' = last'.ret
                       /\ last'.ret \notin {SQLITE_OK, SQLITE_BUSY}
                    \/ /\ eVdbeState' = VDBE_RUN_STATE
                       /\ last'.ret = SQLITE_BUSY
                       /\ pc' = failing
  /\ (last.op = "step" /\ last.ret = SQLITE_BUSY /\ last'.op = "step") =>
       (lastRun' # <<>> /\ lastRun'[1] = pc)
  /\ (last.op = "step" /\ last.ret = SQLITE_ERROR /\ last'.op = "step") =>
       lastRun' = <<>>

(* C15: a step that returns neither row nor done leaves the VM either       *)
(* HALTED with the error code recorded on it, and no later step runs        *)
(* anything, or (busy) still running with the instruction pointer on the    *)
(* instruction that was refused, which the next step executes first; in     *)
(* both cases registers and cursor slots are as the instructions before     *)
(* the failing one left them.                                               *)
C15_FailedStep == [][C15_Act]_vars

(* A step found the storage engine busy and left the VM running; the next   *)
(* step opened the cursor and then halted on a register outside the file    *)
C15_Witness ==
  /\ last.op = "step"
  /\ last.ret = SQLITE_ERROR
  /\ eVdbeState = VDBE_HALT_STATE
  /\ rc = SQLITE_ERROR
  /\ statePath = <<VDBE_RUN_STATE, VDBE_RUN_STATE, VDBE_HALT_STATE>>
  /\ nRow = 0
  /\ nCursor = 1
  /\ apCsr[0] = "open"

(* Calls made on the second VM *)
BOps == {"B.make_ready", "B.set_int"}

C16_Act == last'.op \notin BOps => vmB' = vmB

(* C16: no call on the first VM's handle, before or after finalize,         *)
(* changes the second VM's program, registers, cursor table, counts or      *)
(* life-cycle state.                                                        *)
C16_Isolation == [][C16_Act]_vars

(* A resolve_label call that the assembly rules forbid has returned: it     *)
(* named an identifier make_label never returned, or it asked for another   *)
(* address than the first resolve_label call on the same label.             *)
Misresolved ==
  \E l \in DOMAIN resolvedAt :
    l \notin Range(issued) \/ resolvedAt[l] # firstAt[l]

(* C12: after a resolve_label call on an already resolved label, or on an   *)
(* identifier make_label never returned, every jump to a label that was     *)
(* created and resolved still transfers control to the address of that      *)
(* label's first resolution.                                                *)
C12_NoWrongTarget ==
  (alive = "live" /\ declared # <<>> /\ Misresolved) =>
    \A ref \in refs :
      (ref[2] \in Range(issued) /\ ref[2] \in DOMAIN firstAt)
        => C3_JumpGoesTo(ref[1], firstAt[ref[2]])

(* The number of labels make_label had handed out before the last call *)
LabelsBefore == IF last.op = "make_label" THEN Len(issued) - 1 ELSE Len(issued)

(* C20: whenever a helper has returned, pParse is null, and the engine      *)
(* routine run by make_label, resolve_label or make_ready found an          *)
(* assembly context that holds the labels created by the earlier            *)
(* make_label calls.                                                        *)
C20_Context ==
  /\ pParse = NULL
  /\ (alive = "live" /\ last.op \in {"make_label", "resolve_label", "make_ready"}) =>
       /\ ctx.present
       /\ ctx.parse.nLabel = LabelsBefore

====
